---- MODULE Spec2Model ----
(***************************************************************************)
(* Model of the NED EPEX Forecast coordinator                              *)
(* (custom_components/ned_epex_forecast/coordinator.py).                   *)
(*                                                                         *)
(* Numbers.  The code computes in Python floats.  The model computes in    *)
(* exact rationals <<numerator, denominator>> (denominator > 0, lowest     *)
(* terms), and keeps every value the code rounds as an integer count of    *)
(* the rounding unit:                                                      *)
(*   prices, price_low/high, confidence_std, avg/min/max_price             *)
(*                       : hundredths of a ct/kWh   (round(x, 2))          *)
(*   *_gw fields of the combined forecast                                  *)
(*                       : thousandths of a GW = MW (round(x, 3))          *)
(*   sample values of the NED series : MW                                  *)
(*   timestamps, the clock           : whole hours, or quarter hours for   *)
(*                                     the raw NED samples                 *)
(* round() is modelled by what it does to the exact value: nearest unit,   *)
(* an exact half going to the even neighbour.  (A float that prints as an  *)
(* exact half is rarely one; the statements checked below do not depend on *)
(* the direction an exact half is rounded in.)                             *)
(*                                                                         *)
(* None is the empty sequence <<>>, Some(v) the one-element sequence <<v>>.*)
(***************************************************************************)
EXTENDS Integers, Sequences, FiniteSets, TLC

VARIABLES
    multiplier,           \* self.multiplier            (rational)
    offset,               \* self.offset                (rational, ct/kWh)
    last_calibration,     \* self.last_calibration      (None or hour)
    calibration_r2,       \* self.calibration_r2        (None or rational)
    calibration_mae,      \* self.calibration_mae       (None or rational)
    calibration_samples,  \* self.calibration_samples
    charge_window_hours,  \* self.charge_window_hours
    now,                  \* dt_util.now(), in hours
    price_history,        \* the recorder's history of self.price_entity
    restlast_history,     \* the recorder's history of the restlast sensor
    pc,                   \* where _async_update_data stands
    fetch,                \* the four _fetch_ned_data_type tasks
    ned_data,             \* what _fetch_ned_forecast returned
    outcome,              \* how the last update cycle ended
    attempted,            \* the cycle has entered _calibrate_model
    completed,            \* None, or the order in which the tasks ended
    hass_data,            \* hass.data[DOMAIN]: entry id -> coordinator
    platforms,            \* the entries whose sensor platform is set up
    fn,                   \* the method called on its own
    args,                 \* its arguments
    ret                   \* None while it runs, Some(return value) after

coordVars == <<multiplier, offset, last_calibration, calibration_r2,
               calibration_mae, calibration_samples>>
envVars == <<now, price_history, restlast_history>>
cycleVars == <<pc, fetch, ned_data, outcome, attempted, completed>>
vars == <<multiplier, offset, last_calibration, calibration_r2,
          calibration_mae, calibration_samples, charge_window_hours, now,
          price_history, restlast_history, pc, fetch, ned_data, outcome,
          attempted, completed, hass_data, platforms, fn, args, ret>>
entryVars == <<hass_data, platforms>>

None == <<>>
Some(v) == <<v>>

-----------------------------------------------------------------------------
(* Exact arithmetic standing for the floats of the code.                   *)

Abs(n) == IF n < 0 THEN -n ELSE n

RECURSIVE Gcd(_, _)
Gcd(a, b) == IF b = 0 THEN a ELSE Gcd(b, a % b)

\* The rational n/d in lowest terms with a positive denominator.
Rat(n, d) ==
    LET s == IF d < 0 THEN -1 ELSE 1
        g == Gcd(Abs(n), Abs(d))
    IN  <<(s * n) \div g, (s * d) \div g>>

RInt(n) == <<n, 1>>
\* Sums and comparisons go through the least common denominator, products
\* cancel across, to keep the intermediate integers small.
RAdd(p, q) ==
    LET g == Gcd(p[2], q[2])
    IN  Rat(p[1] * (q[2] \div g) + q[1] * (p[2] \div g), p[2] * (q[2] \div g))
RNeg(p) == <<-p[1], p[2]>>
RSub(p, q) == RAdd(p, RNeg(q))
RMul(p, q) ==
    LET g1 == Gcd(Abs(p[1]), q[2])
        g2 == Gcd(Abs(q[1]), p[2])
    IN  IF p[1] = 0 \/ q[1] = 0 THEN <<0, 1>>
        ELSE Rat((p[1] \div g1) * (q[1] \div g2), (p[2] \div g2) * (q[2] \div g1))
RDiv(p, q) ==
    RMul(p, IF q[1] < 0 THEN <<-q[2], -q[1]>> ELSE <<q[2], q[1]>>)
RLess(p, q) ==
    LET g == Gcd(p[2], q[2])
    IN  p[1] * (q[2] \div g) < q[1] * (p[2] \div g)
RLeq(p, q) ==
    LET g == Gcd(p[2], q[2])
    IN  p[1] * (q[2] \div g) <= q[1] * (p[2] \div g)
RAbs(p) == <<Abs(p[1]), p[2]>>

\* round(p, k): the number of units 1/unit nearest to p, half to even.
Round(p, unit) ==
    LET n == p[1] * unit
        d == p[2]
        lo == n \div d
        r == n % d
    IN  IF 2 * r < d THEN lo
        ELSE IF 2 * r > d THEN lo + 1
        ELSE IF lo % 2 = 0 THEN lo ELSE lo + 1

-----------------------------------------------------------------------------
(* _combine_ned_data                                                       *)
(* A series is the list under "values"; a point is                         *)
(* [validfrom |-> None or Some(quarter hour), value |-> MW].  validfrom is *)
(* None when the key is missing or empty, or when parse_datetime returns   *)
(* None.                                                                   *)

RECURSIVE SumSeq(_)
SumSeq(list) == IF list = <<>> THEN 0 ELSE Head(list) + SumSeq(Tail(list))

\* timestamp.replace(minute=0, second=0, microsecond=0), as an hour number
HourKey(quarter) == quarter \div 4

EmptyBucket ==
    [consumption |-> <<>>, wind_onshore |-> <<>>, wind_offshore |-> <<>>,
     solar |-> <<>>]

\* "if idx < len(values): bucket.append(values[idx].get('value', 0))",
\* idx counted from 1.
AppendAtIndex(bucket, values, idx) ==
    IF idx <= Len(values) THEN Append(bucket, values[idx].value) ELSE bucket

\* The first loop: hourly_data after the points idx.. of consumption.
RECURSIVE HourlyDataLoop(_, _, _, _, _, _)
HourlyDataLoop(cons_values, wind_on_values, wind_off_values, solar_values, idx, hourly_data) ==
    IF idx > Len(cons_values) THEN hourly_data
    ELSE IF cons_values[idx].validfrom = None
    THEN HourlyDataLoop(cons_values, wind_on_values, wind_off_values,
                        solar_values, idx + 1, hourly_data)
    ELSE
    LET hour_key == HourKey(cons_values[idx].validfrom[1])
        old == IF hour_key \in DOMAIN hourly_data
               THEN hourly_data[hour_key] ELSE EmptyBucket
        new == [consumption |->
                    Append(old.consumption, cons_values[idx].value),
                wind_onshore |->
                    AppendAtIndex(old.wind_onshore, wind_on_values, idx),
                wind_offshore |->
                    AppendAtIndex(old.wind_offshore, wind_off_values, idx),
                solar |-> AppendAtIndex(old.solar, solar_values, idx)]
    IN  HourlyDataLoop(cons_values, wind_on_values, wind_off_values,
                       solar_values, idx + 1,
                       [h \in DOMAIN hourly_data \cup {hour_key} |->
                            IF h = hour_key THEN new ELSE hourly_data[h]])

HourlyData(consumption, wind_onshore, wind_offshore, solar) ==
    HourlyDataLoop(consumption, wind_onshore, wind_offshore, solar, 1,
                   [h \in {} |-> EmptyBucket])

\* sum(values) / len(values) if values else 0
Average(values) ==
    IF values = <<>> THEN RInt(0) ELSE Rat(SumSeq(values), Len(values))

\* restlast is computed from the four unrounded values (the mutant: from
\* the rounded fields).
MutForecastEntry(timestamp, data) ==
    LET c == Round(RDiv(Average(data.consumption), RInt(1000)), 1000)
        on == Round(RDiv(Average(data.wind_onshore), RInt(1000)), 1000)
        off == Round(RDiv(Average(data.wind_offshore), RInt(1000)), 1000)
        s == Round(RDiv(Average(data.solar), RInt(1000)), 1000)
    IN  [timestamp |-> timestamp,
         consumption_gw |-> c, wind_onshore_gw |-> on,
         wind_offshore_gw |-> off, solar_gw |-> s,
         restlast_gw |-> c - (on + off + s)]

\* The body of the second loop: one entry of the forecast.
ForecastEntry(timestamp, data) ==
    LET consumption_gw == RDiv(Average(data.consumption), RInt(1000))
        wind_on_gw == RDiv(Average(data.wind_onshore), RInt(1000))
        wind_off_gw == RDiv(Average(data.wind_offshore), RInt(1000))
        solar_gw == RDiv(Average(data.solar), RInt(1000))
        restlast_gw ==
            RSub(consumption_gw, RAdd(RAdd(wind_on_gw, wind_off_gw), solar_gw))
    IN  [timestamp |-> timestamp,
         consumption_gw |-> Round(consumption_gw, 1000),
         wind_onshore_gw |-> Round(wind_on_gw, 1000),
         wind_offshore_gw |-> Round(wind_off_gw, 1000),
         solar_gw |-> Round(solar_gw, 1000),
         restlast_gw |-> Round(restlast_gw, 1000)]

\* sorted(keys), as a sequence
RECURSIVE MutSorted(_)
MutSorted(keys) ==
    IF keys = {} THEN <<>>
    ELSE LET most == CHOOSE k \in keys : \A other \in keys : k >= other
         IN  <<most>> \o MutSorted(keys \ {most})

RECURSIVE Sorted(_)
Sorted(keys) ==
    IF keys = {} THEN <<>>
    ELSE LET least == CHOOSE k \in keys : \A other \in keys : k <= other
         IN  <<least>> \o Sorted(keys \ {least})

CombineNedData(consumption, wind_onshore, wind_offshore, solar) ==
    LET hourly_data == HourlyData(consumption, wind_onshore, wind_offshore, solar)
        hours == Sorted(DOMAIN hourly_data)
    IN  [k \in 1..Len(hours) |-> ForecastEntry(hours[k], hourly_data[hours[k]])]

-----------------------------------------------------------------------------
(* _fit_linear and _calculate_r2, on lists of rationals                    *)

\* sum(list) of exact numbers; the list is summed by halves.
RECURSIVE RSum(_)
RSum(list) ==
    IF list = <<>> THEN RInt(0)
    ELSE IF Len(list) = 1 THEN list[1]
    ELSE LET half == Len(list) \div 2
         IN  RAdd(RSum(SubSeq(list, 1, half)),
                  RSum(SubSeq(list, half + 1, Len(list))))

\* zip(xs, ys) stops at the shorter list
ZipLen(xs, ys) == IF Len(xs) < Len(ys) THEN Len(xs) ELSE Len(ys)

MutFitLinear(xs, ys, mult, off) ==
    LET n == Len(xs)
        mean_x == RDiv(RSum(xs), RInt(n))
        mean_y == RDiv(RSum(ys), RInt(n))
        s_xy == RSum([k \in 1..ZipLen(xs, ys) |->
                         RMul(RSub(xs[k], mean_x), RSub(ys[k], mean_y))])
        s_xx == RSum([k \in 1..n |->
                         RMul(RSub(xs[k], mean_x), RSub(xs[k], mean_x))])
        a == RDiv(s_xy, s_xx)
    IN  IF n < 2 THEN <<mult, off>>
        ELSE IF RLess(s_xx, Rat(1, 1000)) THEN <<mult, off>>
        ELSE <<a, RSub(mean_y, a)>>

\* Returns <<multiplier, offset>>: the stored pair when there are fewer
\* than 2 points or s_xx < 0.001, else the fitted pair.
FitLinear(xs, ys, mult, off) ==
    LET n == Len(xs)
        mean_x == RDiv(RSum(xs), RInt(n))
        mean_y == RDiv(RSum(ys), RInt(n))
        s_xy == RSum([k \in 1..ZipLen(xs, ys) |->
                         RMul(RSub(xs[k], mean_x), RSub(ys[k], mean_y))])
        s_xx == RSum([k \in 1..n |->
                         RMul(RSub(xs[k], mean_x), RSub(xs[k], mean_x))])
        a == RDiv(s_xy, s_xx)
        b == RSub(mean_y, RMul(a, mean_x))
    IN  IF n < 2 THEN <<mult, off>>
        ELSE IF RLess(s_xx, Rat(1, 1000)) THEN <<mult, off>>
        ELSE <<a, b>>

\* max(0.0, x)
RMax0(x) == IF RLess(x, RInt(0)) THEN RInt(0) ELSE x

CalculateR2(actuals, predictions) ==
    LET n == Len(actuals)
        mean_actual == RDiv(RSum(actuals), RInt(n))
        ss_tot == RSum([k \in 1..n |->
                           RMul(RSub(actuals[k], mean_actual),
                                RSub(actuals[k], mean_actual))])
        ss_res == RSum([k \in 1..ZipLen(actuals, predictions) |->
                           RMul(RSub(actuals[k], predictions[k]),
                                RSub(actuals[k], predictions[k]))])
    IN  IF n = 0 THEN RInt(0)
        ELSE IF RLess(ss_tot, Rat(1, 10000)) THEN RInt(0)
        ELSE RMax0(RSub(RInt(1), RDiv(ss_res, ss_tot)))

-----------------------------------------------------------------------------
(* _get_historical_prices, _get_historical_restlast, _calibrate_model      *)
(*                                                                         *)
(* The recorder's answer for a sensor is a record: kind "error" (the call  *)
(* raises), "no_entity" (the entity is not in the answer) or "states",     *)
(* with the list of states given by a pattern of state values repeated     *)
(* reps times, one state every step half hours from first on.  A state     *)
(* value is Some(number) or None (a state float() rejects, such as         *)
(* "unavailable"); such a state carries the history's raw_today entries    *)
(* (start, value in EUR/kWh) as its attribute.  History timestamps are in  *)
(* half hours.                                                             *)

StatesOf(history) ==
    [i \in 1..(Len(history.pattern) * history.reps) |->
        [state |-> history.pattern[((i - 1) % Len(history.pattern)) + 1],
         last_changed |-> history.first + history.step * (i - 1),
         raw_today |->
             IF history.pattern[((i - 1) % Len(history.pattern)) + 1] = None
             THEN history.raw_today ELSE <<>>,
         raw_tomorrow |-> <<>>]]

\* "if price < 1.0: price = price * 100"
NormalisePrice(price) ==
    IF RLess(price, RInt(1)) THEN RMul(price, RInt(100)) ELSE price

\* The entries of raw_today / raw_tomorrow: start parsed, value * 100.
AttributePrices(entries) ==
    [k \in 1..Len(entries) |->
        [timestamp |-> entries[k].start,
         price |-> RMul(entries[k].value, RInt(100))]]

\* The lists of `lists` one after the other.
RECURSIVE Chain(_)
Chain(lists) ==
    IF lists = <<>> THEN <<>>
    ELSE IF Len(lists) = 1 THEN lists[1]
    ELSE LET half == Len(lists) \div 2
         IN  Chain(SubSeq(lists, 1, half))
                 \o Chain(SubSeq(lists, half + 1, Len(lists)))

\* What one state adds to the prices: its own value, or, when float()
\* rejects it, the entries of its raw_today and raw_tomorrow attributes.
PricesOfState(state) ==
    IF state.state # None
    THEN <<[timestamp |-> state.last_changed,
            price |-> NormalisePrice(state.state[1])]>>
    ELSE AttributePrices(state.raw_today)
             \o AttributePrices(state.raw_tomorrow)

PricesOfStates(states) ==
    Chain([k \in 1..Len(states) |-> PricesOfState(states[k])])

GetHistoricalPrices(history) ==
    IF history.kind = "error" THEN <<>>
    ELSE IF history.kind = "no_entity" THEN <<>>
    ELSE PricesOfStates(StatesOf(history))

MinOf(set) == CHOOSE m \in set : \A other \in set : m <= other
MaxOf(set) == CHOOSE m \in set : \A other \in set : m >= other

\* restlast_data as the list of <<last_changed, value>> in insertion
\* order: a key set again keeps its place and takes the last value.
RestlastOfStates(states) ==
    LET valid == SelectSeq(states, LAMBDA state : state.state # None)
        \* the places in `valid` where a key is set for the first time
        order == SelectSeq([k \in 1..Len(valid) |-> k],
                     LAMBDA k : \A j \in 1..(k - 1) :
                         valid[j].last_changed # valid[k].last_changed)
        last(k) == MaxOf({j \in 1..Len(valid) :
                             valid[j].last_changed = valid[k].last_changed})
    IN  [i \in 1..Len(order) |->
            <<valid[order[i]].last_changed, valid[last(order[i])].state[1]>>]

\* The recorder answers with the states changed in [start_time, end_time].
GetHistoricalRestlast(history, timestamps) ==
    IF Len(timestamps) = 0 THEN <<>>
    ELSE IF history.kind = "error" THEN <<>>
    ELSE IF history.kind = "no_entity" THEN <<>>
    ELSE LET start_time == MinOf({timestamps[k] : k \in 1..Len(timestamps)})
             end_time == MaxOf({timestamps[k] : k \in 1..Len(timestamps)})
         IN  RestlastOfStates(
                 SelectSeq(StatesOf(history),
                     LAMBDA state : start_time <= state.last_changed
                                    /\ state.last_changed <= end_time))

\* The first restlast in the dict's order less than an hour (2 half hours)
\* from ts: None or Some(value).
FirstWithinHour(ts, historical_restlast) ==
    LET near == {k \in 1..Len(historical_restlast) :
                    Abs(ts - historical_restlast[k][1]) < 2}
    IN  IF near = {} THEN None
        ELSE Some(historical_restlast[MinOf(near)][2])

\* What one price adds to matched_data.
MatchOf(price_point, historical_restlast) ==
    LET restlast == FirstWithinHour(price_point.timestamp,
                                    historical_restlast)
    IN  IF restlast # None
        THEN <<[restlast |-> restlast[1], price |-> price_point.price]>>
        ELSE <<>>

MatchData(historical_prices, historical_restlast) ==
    Chain([k \in 1..Len(historical_prices) |->
              MatchOf(historical_prices[k], historical_restlast)])

\* len(historical_prices) < 50 / len(matched_data) < 50
TooFew(list) == Len(list) < 50

MutAcceptedLowerThreshold(new_mult, new_offset, r2) ==
    /\ RLess(RInt(0), new_mult) /\ RLess(new_mult, RInt(10))
    /\ RLess(RInt(-20), new_offset) /\ RLess(new_offset, RInt(20))
    /\ RLess(Rat(1, 10), r2)

MutAccepted(new_mult, new_offset, r2) ==
    /\ RLess(RInt(0), new_mult) /\ RLess(new_mult, RInt(10))
    /\ RLess(RInt(-20), new_offset) /\ RLess(new_offset, RInt(20))

\* 0.0 < new_mult < 10.0 and -20.0 < new_offset < 20.0 and r2 > 0.2
Accepted(new_mult, new_offset, r2) ==
    /\ RLess(RInt(0), new_mult) /\ RLess(new_mult, RInt(10))
    /\ RLess(RInt(-20), new_offset) /\ RLess(new_offset, RInt(20))
    /\ RLess(Rat(1, 5), r2)

MutTooFewMatched(matched_data) == Len(matched_data) < 40

TooFewMatched(matched_data) == TooFew(matched_data)

MutRejected(self, t) == [self EXCEPT !.last_calibration = Some(t)]

\* "else: _LOGGER.warning(Calibration rejected ...)": self as it was
Rejected(self, t) == self

\* The six calibration fields a run that started with `self` leaves.
CalibrateModel(self, prices, restlasts, t) ==
    LET historical_prices == GetHistoricalPrices(prices)
        timestamps == [k \in 1..Len(historical_prices) |->
                          historical_prices[k].timestamp]
        historical_restlast == GetHistoricalRestlast(restlasts, timestamps)
        matched_data == MatchData(historical_prices, historical_restlast)
        xs == [k \in 1..Len(matched_data) |-> matched_data[k].restlast]
        ys == [k \in 1..Len(matched_data) |-> matched_data[k].price]
        new == FitLinear(xs, ys, self.multiplier, self.offset)
        predictions == [k \in 1..Len(xs) |->
                           RAdd(RMul(new[1], xs[k]), new[2])]
        r2 == CalculateR2(ys, predictions)
        mae == RDiv(RSum([k \in 1..Len(ys) |->
                             RAbs(RSub(ys[k], predictions[k]))]),
                    RInt(Len(ys)))
    IN  IF TooFew(historical_prices) THEN self
        ELSE IF TooFewMatched(matched_data) THEN self
        ELSE IF Accepted(new[1], new[2], r2)
        THEN [multiplier |-> new[1], offset |-> new[2],
              calibration_r2 |-> Some(r2), calibration_mae |-> Some(mae),
              calibration_samples |-> Len(matched_data),
              last_calibration |-> Some(t)]
        ELSE Rejected(self, t)

\* self, as far as calibration goes
Self ==
    [multiplier |-> multiplier, offset |-> offset,
     calibration_r2 |-> calibration_r2, calibration_mae |-> calibration_mae,
     calibration_samples |-> calibration_samples,
     last_calibration |-> last_calibration]

\* await self._calibrate_model()
RunCalibration ==
    \E after \in {CalibrateModel(Self, price_history, restlast_history, now)} :
        /\ multiplier' = after.multiplier
        /\ offset' = after.offset
        /\ calibration_r2' = after.calibration_r2
        /\ calibration_mae' = after.calibration_mae
        /\ calibration_samples' = after.calibration_samples
        /\ last_calibration' = after.last_calibration

-----------------------------------------------------------------------------
(* _calculate_price_forecast                                               *)
(* The loop reads the clock once per entry; it does not await, so at the   *)
(* clock's resolution every entry sees the same now.                       *)

\* restlast_gw as the number it stands for (thousandths of a GW)
Gw(restlast_gw) == Rat(restlast_gw, 1000)

MutLinearPrice(mult, off, restlast_gw) ==
    RMul(mult, RAdd(Gw(restlast_gw), off))

\* price = (self.multiplier * restlast) + self.offset
LinearPrice(mult, off, restlast_gw) == RAdd(RMul(mult, Gw(restlast_gw)), off)

MutConfidenceStd(hours_ahead) ==
    RAdd(Rat(1, 2), RMul(Rat(Abs(hours_ahead), 48), Rat(3, 2)))

\* confidence_std = 0.5 + (hours_ahead / 48) * 1.5
ConfidenceStd(hours_ahead) ==
    RAdd(Rat(1, 2), RMul(Rat(hours_ahead, 48), Rat(3, 2)))

PriceEntry(hour_data, mult, off, t) ==
    LET price == LinearPrice(mult, off, hour_data.restlast_gw)
        confidence_std == ConfidenceStd(hour_data.timestamp - t)
    IN  [timestamp |-> hour_data.timestamp,
         price |-> Round(price, 100),
         price_low |-> Round(RSub(price, confidence_std), 100),
         price_high |-> Round(RAdd(price, confidence_std), 100),
         confidence_std |-> Round(confidence_std, 100),
         restlast_gw |-> hour_data.restlast_gw]

CalculatePriceForecast(forecast, mult, off, t) ==
    [k \in 1..Len(forecast) |-> PriceEntry(forecast[k], mult, off, t)]

-----------------------------------------------------------------------------
(* _find_best_window                                                       *)

RECURSIVE SumPrices(_)
SumPrices(window) ==
    IF window = <<>> THEN 0 ELSE Head(window).price + SumPrices(Tail(window))

MinPrice(window) ==
    CHOOSE m \in {window[k].price : k \in 1..Len(window)} :
        \A k \in 1..Len(window) : m <= window[k].price

MaxPrice(window) ==
    CHOOSE m \in {window[k].price : k \in 1..Len(window)} :
        \A k \in 1..Len(window) : m >= window[k].price

\* The loop "for i in range(len(prices) - hours + 1)", i counted from 1.
\* avg_price is the exact mean; best holds the mean rounded to hundredths,
\* and the comparison is between the two as the code makes it.
RECURSIVE FindBestWindowLoop(_, _, _, _)
FindBestWindowLoop(prices, hours, i, best) ==
    IF i > Len(prices) - hours + 1 THEN best
    ELSE LET window == SubSeq(prices, i, i + hours - 1)
             avg_price == Rat(SumPrices(window), hours)
         IN  IF best = None \/ RLess(avg_price, RInt(best[1].avg_price))
             THEN FindBestWindowLoop(prices, hours, i + 1,
                      Some([start |-> window[1].timestamp,
                            end |-> window[Len(window)].timestamp,
                            avg_price |-> Round(avg_price, 1),
                            min_price |-> MinPrice(window),
                            max_price |-> MaxPrice(window)]))
             ELSE FindBestWindowLoop(prices, hours, i + 1, best)

MutFindBestWindow(prices, hours) ==
    IF prices = <<>> \/ Len(prices) <= hours THEN None
    ELSE FindBestWindowLoop(prices, hours, 1, None)

FindBestWindow(prices, hours) ==
    IF prices = <<>> \/ Len(prices) < hours THEN None
    ELSE FindBestWindowLoop(prices, hours, 1, None)

-----------------------------------------------------------------------------
(* _calculate_charge_advice                                                *)

ADVICE_CHARGE_NOW == "charge_now"
ADVICE_WAIT_2_3_DAYS == "wait_2_3_days"
ADVICE_WAIT_4_7_DAYS == "wait_4_7_days"
ADVICE_NO_DATA == "no_data"

\* (p["timestamp"] - now).total_seconds() / 3600
HoursAhead(p, t) == p.timestamp - t

MutInHorizon(p, t, from, to) ==
    from <= HoursAhead(p, t) /\ HoursAhead(p, t) <= to

InHorizon(p, t, from, to) == from <= HoursAhead(p, t) /\ HoursAhead(p, t) < to

\* The list comprehension [p for p in price_forecast if from <= ... < to].
HorizonEntries(price_forecast, t, from, to) ==
    SelectSeq(price_forecast, LAMBDA p : InHorizon(p, t, from, to))

\* best_later["avg_price"] < best_now["avg_price"] * factor, factor in
\* hundredths (0.90, 0.85).
CheaperThan(other, best_now, factor) ==
    /\ other # None
    /\ RLess(RInt(other[1].avg_price),
             RMul(RInt(best_now[1].avg_price), Rat(factor, 100)))

MutCalculateChargeAdvice(price_forecast, t, hours) ==
    IF price_forecast = <<>>
    THEN [advice |-> ADVICE_NO_DATA, best_window |-> None,
          savings_ct_per_kwh |-> 0]
    ELSE
    LET best_now == FindBestWindow(HorizonEntries(price_forecast, t, 0, 48), hours)
        best_later == FindBestWindow(HorizonEntries(price_forecast, t, 48, 96), hours)
        best_much_later ==
            FindBestWindow(HorizonEntries(price_forecast, t, 96, 168), hours)
        choice ==
            IF best_now = None
            THEN <<ADVICE_NO_DATA, None, 0>>
            ELSE IF CheaperThan(best_much_later, best_now, 85)
            THEN <<ADVICE_WAIT_4_7_DAYS, best_much_later,
                   best_now[1].avg_price - best_much_later[1].avg_price>>
            ELSE IF CheaperThan(best_later, best_now, 90)
            THEN <<ADVICE_WAIT_2_3_DAYS, best_later,
                   best_now[1].avg_price - best_later[1].avg_price>>
            ELSE <<ADVICE_CHARGE_NOW, best_now, 0>>
    IN  [advice |-> choice[1], best_window |-> choice[2],
         savings_ct_per_kwh |-> choice[3],
         window_now |-> best_now, window_later |-> best_later,
         window_much_later |-> best_much_later]

CalculateChargeAdvice(price_forecast, t, hours) ==
    IF price_forecast = <<>>
    THEN [advice |-> ADVICE_NO_DATA, best_window |-> None,
          savings_ct_per_kwh |-> 0]
    ELSE
    LET best_now == FindBestWindow(HorizonEntries(price_forecast, t, 0, 48), hours)
        best_later == FindBestWindow(HorizonEntries(price_forecast, t, 48, 96), hours)
        best_much_later ==
            FindBestWindow(HorizonEntries(price_forecast, t, 96, 168), hours)
        \* <<advice, best_option, savings>>; savings is a difference of two
        \* values in hundredths, which round(savings, 2) leaves as it is.
        choice ==
            IF best_now = None
            THEN <<ADVICE_NO_DATA, None, 0>>
            ELSE IF CheaperThan(best_later, best_now, 90)
            THEN <<ADVICE_WAIT_2_3_DAYS, best_later,
                   best_now[1].avg_price - best_later[1].avg_price>>
            ELSE IF CheaperThan(best_much_later, best_now, 85)
            THEN <<ADVICE_WAIT_4_7_DAYS, best_much_later,
                   best_now[1].avg_price - best_much_later[1].avg_price>>
            ELSE <<ADVICE_CHARGE_NOW, best_now, 0>>
    IN  [advice |-> choice[1], best_window |-> choice[2],
         savings_ct_per_kwh |-> choice[3],
         window_now |-> best_now, window_later |-> best_later,
         window_much_later |-> best_much_later]

-----------------------------------------------------------------------------
(* Bounds and input domains.                                               *)

MaxLen == 4                    \* longest price list handed to a method
PriceVals == {0, 1, 2}         \* prices, in hundredths of a ct/kWh
\* Window lengths for which the mean of hundredths is never an exact half
\* of a hundredth, so that round() depends on the decimal value alone.
HoursVals == {1, 3}

DEFAULT_MULTIPLIER == Rat(127, 100)
DEFAULT_OFFSET == Rat(3, 2)

\* The fields as __init__ leaves them.
InitCoordinator ==
    /\ multiplier = DEFAULT_MULTIPLIER
    /\ offset = DEFAULT_OFFSET
    /\ last_calibration = None
    /\ calibration_r2 = None
    /\ calibration_mae = None
    /\ calibration_samples = 0

\* The recorder holds no history of either sensor.
NoHistory ==
    /\ price_history = [kind |-> "no_entity"]
    /\ restlast_history = [kind |-> "no_entity"]

Series == {"consumption", "wind_onshore", "wind_offshore", "solar"}

\* The ids of the config entries of the installation
EntryIds == {"e1", "e2", "e3"}

\* No config entry has been set up: hass.data holds no coordinator.
NoEntries ==
    /\ hass_data = [e \in EntryIds |-> None]
    /\ platforms = {}

\* No update cycle is running and none has run.
CycleIdle ==
    /\ pc = "idle"
    /\ fetch = [s \in Series |-> [status |-> "none", values |-> <<>>]]
    /\ ned_data = None
    /\ outcome = None
    /\ attempted = FALSE
    /\ completed = None
    /\ NoEntries

\* Price lists with consecutive hourly timestamps starting at hour t0.
PriceLists(t0) ==
    UNION {{[k \in 1..n |-> [timestamp |-> t0 + k - 1, price |-> ps[k]]] :
                ps \in [1..n -> PriceVals]} : n \in 0..MaxLen}

-----------------------------------------------------------------------------
(* _async_update_data: one update cycle                                    *)
(*                                                                         *)
(* pc is the place the cycle has reached: "idle" (none running),           *)
(* "fetching" (the four requests are out), "calibrate" (the series are     *)
(* combined) and "forecast" (calibration is over).  fetch[s] is the state  *)
(* of the request for series s: its status ("none", "pending", "ok",       *)
(* "timeout", "client_error", "http_error") and, when ok, the "values" of  *)
(* the answer.  outcome is what the last finished cycle gave its caller:   *)
(* a result or UpdateFailed.                                               *)

\* The tasks in the order _fetch_ned_forecast creates them.
Tasks == <<"consumption", "wind_onshore", "wind_offshore", "solar">>

\* asyncio.TimeoutError, aiohttp.ClientError and the ClientResponseError
\* of raise_for_status(): each leaves the task with UpdateFailed.
FetchErrors == {"timeout", "client_error", "http_error"}

\* isinstance(result, Exception)
IsException(result) == result.status \in FetchErrors

MutFirstException(results) ==
    LET bad == {i \in 1..(Len(Tasks) - 1) : IsException(results[Tasks[i]])}
    IN  IF bad = {} THEN None ELSE Some(Tasks[MinOf(bad)])

\* "for idx, result in enumerate(results): if isinstance(result,
\* Exception): raise result": the series whose exception is raised.
FirstException(results) ==
    LET bad == {i \in 1..Len(Tasks) : IsException(results[Tasks[i]])}
    IN  IF bad = {} THEN None ELSE Some(Tasks[MinOf(bad)])

\* The configured hours between calibrations
calibration_interval == 2

MutShouldCalibrate(t) ==
    \/ last_calibration = None
    \/ t - last_calibration[1] > calibration_interval

\* _should_calibrate at time t
ShouldCalibrate(t) ==
    \/ last_calibration = None
    \/ t - last_calibration[1] >= calibration_interval

\* _async_update_data is called; _fetch_ned_forecast starts its four tasks.
AsyncUpdateData ==
    /\ pc = "idle"
    /\ pc' = "fetching"
    /\ fetch' = [s \in Series |-> [status |-> "pending", values |-> <<>>]]
    /\ ned_data' = None
    /\ outcome' = None
    /\ attempted' = FALSE
    /\ completed' = IF completed = None THEN None ELSE Some(<<>>)
    /\ UNCHANGED <<coordVars, charge_window_hours, envVars, entryVars, fn, args, ret>>

\* _fetch_ned_data_type for series s ends with an answer or an exception.
FetchNedDataType(s, answers) ==
    /\ pc = "fetching"
    /\ fetch[s].status = "pending"
    /\ \/ \E values \in answers :
             fetch' = [fetch EXCEPT ![s] = [status |-> "ok", values |-> values]]
       \/ \E error \in FetchErrors :
             fetch' = [fetch EXCEPT ![s] = [status |-> error, values |-> <<>>]]
    /\ completed' = IF completed = None THEN None
                     ELSE Some(Append(completed[1], s))
    /\ UNCHANGED <<coordVars, charge_window_hours, envVars, pc, ned_data,
                   outcome, attempted, entryVars, fn, args, ret>>

\* The place of a series among the tasks
Position(s) == CHOOSE i \in 1..Len(Tasks) : Tasks[i] = s

MutGather(tasks, order) ==
    IF order = None THEN tasks
    ELSE [s \in Series |-> tasks[order[1][Position(s)]]]

\* "results = await asyncio.gather(*tasks, return_exceptions=True)" and
\* "consumption, wind_onshore, wind_offshore, solar = results": each
\* result is that of the task at its place, whatever the order in which
\* the tasks ended.
Gather(tasks, order) == tasks

\* asyncio.gather has all four results: the first exception is raised and
\* leaves _async_update_data as UpdateFailed, or the series are combined.
FetchNedForecast ==
    /\ pc = "fetching"
    /\ \A s \in Series : fetch[s].status # "pending"
    /\ \E results \in {Gather(fetch, completed)} :
       \E raised \in {FirstException(results)} :
          IF raised # None
          THEN /\ pc' = "idle"
               /\ ned_data' = None
               /\ outcome' = Some([kind |-> "UpdateFailed",
                                   series |-> raised[1],
                                   error |-> results[raised[1]].status])
          ELSE /\ pc' = "calibrate"
               /\ ned_data' = Some(CombineNedData(results.consumption.values,
                                       results.wind_onshore.values,
                                       results.wind_offshore.values,
                                       results.solar.values))
               /\ outcome' = None
    /\ UNCHANGED <<coordVars, charge_window_hours, envVars, fetch, attempted,
                   completed, entryVars, fn, args, ret>>

\* "if self._should_calibrate(): await self._calibrate_model()"
CalibrateIfDue ==
    /\ pc = "calibrate"
    /\ IF ShouldCalibrate(now) THEN RunCalibration ELSE UNCHANGED coordVars
    /\ attempted' = ShouldCalibrate(now)
    /\ pc' = "forecast"
    /\ UNCHANGED <<charge_window_hours, envVars, fetch, ned_data, outcome,
                   completed, entryVars, fn, args, ret>>

MutReturnResult ==
    /\ pc = "forecast"
    /\ \E price_forecast \in
             {CalculatePriceForecast(ned_data[1], DEFAULT_MULTIPLIER,
                                     DEFAULT_OFFSET, now)} :
          outcome' = Some([kind |-> "result",
                           forecast |-> ned_data[1],
                           price_forecast |-> price_forecast,
                           charge_advice |->
                               CalculateChargeAdvice(price_forecast, now,
                                                     charge_window_hours),
                           calibration |-> Self])
    /\ pc' = "idle"
    /\ UNCHANGED <<coordVars, charge_window_hours, envVars, fetch, ned_data,
                   attempted, completed, entryVars, fn, args, ret>>

\* The price forecast, the advice and the returned dict.
ReturnResult ==
    /\ pc = "forecast"
    /\ \E price_forecast \in
             {CalculatePriceForecast(ned_data[1], multiplier, offset, now)} :
          outcome' = Some([kind |-> "result",
                           forecast |-> ned_data[1],
                           price_forecast |-> price_forecast,
                           charge_advice |->
                               CalculateChargeAdvice(price_forecast, now,
                                                     charge_window_hours),
                           calibration |-> Self])
    /\ pc' = "idle"
    /\ UNCHANGED <<coordVars, charge_window_hours, envVars, fetch, ned_data,
                   attempted, completed, entryVars, fn, args, ret>>

\* Price lists with increasing hourly timestamps of which some hours may be
\* missing (an hour without a consumption sample has no forecast entry).
GappedPriceLists ==
    UNION {{[k \in 1..n |-> [timestamp |-> ts[k], price |-> ps[k]]] :
                ts \in {t \in [1..n -> 0..MaxLen] :
                           \A k \in 1..(n - 1) : t[k] < t[k + 1]},
                ps \in [1..n -> PriceVals]} : n \in 0..MaxLen}

-----------------------------------------------------------------------------
(* Specification of _find_best_window on bounded inputs.                   *)

InitWindow ==
    /\ InitCoordinator
    /\ charge_window_hours \in HoursVals
    /\ now = 0
    /\ fn = "_find_best_window"
    /\ args \in {[prices |-> p] : p \in PriceLists(0) \cup GappedPriceLists}
    /\ NoHistory
    /\ CycleIdle
    /\ ret = None

CallFindBestWindow ==
    /\ fn = "_find_best_window"
    /\ ret = None
    /\ ret' = Some(FindBestWindow(args.prices, charge_window_hours))
    /\ UNCHANGED <<coordVars, charge_window_hours, envVars, cycleVars, entryVars, fn, args>>

NextWindow == CallFindBestWindow

SpecWindow == InitWindow /\ [][NextWindow]_vars

-----------------------------------------------------------------------------
(* C1 as claimed: for a list of at least N samples the returned window is  *)
(* the run of N samples with the minimal mean, the first such run on ties. *)

WindowSum(prices, hours, i) == SumPrices(SubSeq(prices, i, i + hours - 1))

FirstMinWindow(prices, hours) ==
    CHOOSE i \in 1..(Len(prices) - hours + 1) :
        /\ \A j \in 1..(Len(prices) - hours + 1) :
               WindowSum(prices, hours, i) <= WindowSum(prices, hours, j)
        /\ \A j \in 1..(i - 1) :
               WindowSum(prices, hours, j) > WindowSum(prices, hours, i)

C1_BestWindowIsFirstMinimum ==
    (fn = "_find_best_window" /\ ret # None
        /\ Len(args.prices) >= charge_window_hours)
    => /\ ret[1] # None
       /\ LET i == FirstMinWindow(args.prices, charge_window_hours)
          IN  /\ ret[1][1].start = args.prices[i].timestamp
              /\ ret[1][1].end =
                     args.prices[i + charge_window_hours - 1].timestamp

-----------------------------------------------------------------------------
(* Specification of _calculate_charge_advice on bounded inputs.            *)

\* Timestamps (hours) of the forecasts handed to the advice: entries in the
\* past, in each horizon, at each horizon's edges, and beyond the last one.
AdviceShapes ==
    { <<>>, <<0>>, <<48>>, <<-1, 47>>, <<47, 48>>, <<0, 95>>, <<0, 96>>,
      <<-1, 48, 96>>, <<0, 48, 96>>, <<47, 95, 167>>, <<0, 167, 168>>,
      <<0, 1, 2, 48, 49, 50>>, <<0, 1, 2, 96, 97, 98>> }
AdvicePrices == {-100, 84, 90, 100}

AdviceForecasts ==
    UNION {{[k \in 1..Len(sh) |-> [timestamp |-> sh[k], price |-> ps[k]]] :
                ps \in [1..Len(sh) -> AdvicePrices]} : sh \in AdviceShapes}

InitAdvice ==
    /\ InitCoordinator
    /\ charge_window_hours \in HoursVals
    /\ now \in {0, 1}
    /\ fn = "_calculate_charge_advice"
    /\ args \in {[price_forecast |-> f] : f \in AdviceForecasts}
    /\ NoHistory
    /\ CycleIdle
    /\ ret = None

CallCalculateChargeAdvice ==
    /\ fn = "_calculate_charge_advice"
    /\ ret = None
    /\ ret' = Some(CalculateChargeAdvice(args.price_forecast, now,
                                         charge_window_hours))
    /\ UNCHANGED <<coordVars, charge_window_hours, envVars, cycleVars, entryVars, fn, args>>

NextAdvice == CallCalculateChargeAdvice

SpecAdvice == InitAdvice /\ [][NextAdvice]_vars

-----------------------------------------------------------------------------
(* C10: the advice is one of the four advice states, decided in the order  *)
(* no_data (the near horizon holds fewer than N entries, so no window),    *)
(* wait_2_3_days (mid window average below 90% of the near one),           *)
(* wait_4_7_days (far window average below 85% of the near one),           *)
(* charge_now; best_window is the window of the horizon the advice names.  *)

NearCount(price_forecast, t) ==
    Cardinality({k \in 1..Len(price_forecast) :
                    0 <= price_forecast[k].timestamp - t
                    /\ price_forecast[k].timestamp - t < 48})

\* 100 * a < pct * b, for averages a, b in hundredths
BelowPct(a, b, pct) == 100 * a < pct * b

C10_AdviceDecisionOrder ==
    (fn = "_calculate_charge_advice" /\ ret # None)
    => LET r == ret[1]
           pf == args.price_forecast
       IN  /\ r.advice \in {ADVICE_CHARGE_NOW, ADVICE_WAIT_2_3_DAYS,
                            ADVICE_WAIT_4_7_DAYS, ADVICE_NO_DATA}
           /\ IF NearCount(pf, now) < charge_window_hours
              THEN r.advice = ADVICE_NO_DATA /\ r.best_window = None
              ELSE LET near == r.window_now
                       mid == r.window_later
                       far == r.window_much_later
                       midWins == mid # None /\
                           BelowPct(mid[1].avg_price, near[1].avg_price, 90)
                       farWins == far # None /\
                           BelowPct(far[1].avg_price, near[1].avg_price, 85)
                   IN  /\ near # None
                       /\ midWins => (r.advice = ADVICE_WAIT_2_3_DAYS
                                      /\ r.best_window = mid)
                       /\ (~midWins /\ farWins)
                              => (r.advice = ADVICE_WAIT_4_7_DAYS
                                  /\ r.best_window = far)
                       /\ (~midWins /\ ~farWins)
                              => (r.advice = ADVICE_CHARGE_NOW
                                  /\ r.best_window = near)

\* The far window is chosen although a mid window exists: the mid one is
\* not below 90% of the near one, the far one is below 85%.
C10_Witness ==
    /\ fn = "_calculate_charge_advice" /\ ret # None
    /\ ret[1].advice = ADVICE_WAIT_4_7_DAYS
    /\ ret[1].window_later # None
    /\ ret[1].best_window = ret[1].window_much_later

-----------------------------------------------------------------------------
(* Specification of _combine_ned_data on bounded inputs.                   *)

MaxSamples == 3                \* longest consumption series
\* Consumption points: a quarter hour in hour 0 or hour 1, or no timestamp.
ConsPoints ==
    {[validfrom |-> v, value |-> x] : v \in {None, Some(0), Some(4)},
                                      x \in {1, 2}}
WindPoints ==
    {[validfrom |-> Some(q), value |-> x] : q \in {0, 4}, x \in {0, 1}}
SeriesOf(points, maxlen) ==
    UNION {[1..n -> points] : n \in 0..maxlen}
OtherSeries ==
    { <<>>, <<[validfrom |-> Some(4), value |-> 1]>> }

InitCombine ==
    /\ InitCoordinator
    /\ charge_window_hours = 1
    /\ now = 0
    /\ fn = "_combine_ned_data"
    /\ args \in {[consumption |-> c, wind_onshore |-> on,
                  wind_offshore |-> off, solar |-> s] :
                    c \in SeriesOf(ConsPoints, MaxSamples),
                    on \in SeriesOf(WindPoints, 2),
                    off \in OtherSeries, s \in OtherSeries}
    /\ NoHistory
    /\ CycleIdle
    /\ ret = None

CallCombineNedData ==
    /\ fn = "_combine_ned_data"
    /\ ret = None
    /\ ret' = Some(CombineNedData(args.consumption, args.wind_onshore,
                                  args.wind_offshore, args.solar))
    /\ UNCHANGED <<coordVars, charge_window_hours, envVars, cycleVars, entryVars, fn, args>>

NextCombine == CallCombineNedData

SpecCombine == InitCombine /\ [][NextCombine]_vars

\* The exact residual load of a bucket, in MW: the mean consumption minus
\* the sum of the mean wind onshore, wind offshore and solar, an empty list
\* counting 0.
ExactRestlast(data) ==
    RSub(Average(data.consumption),
         RAdd(RAdd(Average(data.wind_onshore), Average(data.wind_offshore)),
              Average(data.solar)))

CombineBuckets ==
    HourlyData(args.consumption, args.wind_onshore, args.wind_offshore,
               args.solar)

ValuesInHour(series, hour) ==
    LET own == SelectSeq(series,
                   LAMBDA p : p.validfrom # None /\ HourKey(p.validfrom[1]) = hour)
    IN  [k \in 1..Len(own) |-> own[k].value]

RoundedMean(series, hour) ==
    Round(RDiv(Average(ValuesInHour(series, hour)), RInt(1000)), 1000)

C7_SamplesBucketedByOwnTimestamp ==
    (fn = "_combine_ned_data" /\ ret # None)
    => \A k \in 1..Len(ret[1]) :
          LET e == ret[1][k]
          IN  /\ e.consumption_gw = RoundedMean(args.consumption, e.timestamp)
              /\ e.wind_onshore_gw = RoundedMean(args.wind_onshore, e.timestamp)
              /\ e.wind_offshore_gw = RoundedMean(args.wind_offshore, e.timestamp)
              /\ e.solar_gw = RoundedMean(args.solar, e.timestamp)

-----------------------------------------------------------------------------
(* Specification of _calculate_price_forecast on bounded inputs.           *)

\* Hours of the combined forecast's entries (in increasing order, as
\* _combine_ned_data leaves them): in the past, now, and ahead.
ForecastHours == {-20, -1, 0, 1, 47}
RestlastVals == {0, 1, 1000}   \* MW
\* Stored models: the defaults, and a calibrated one.
Models == {<<DEFAULT_MULTIPLIER, DEFAULT_OFFSET>>, <<Rat(2, 1), Rat(-1, 3)>>}

CombinedForecasts ==
    UNION {{[k \in 1..Len(Sorted(hs)) |->
                [timestamp |-> Sorted(hs)[k], restlast_gw |-> rs[k]]] :
                rs \in [1..Cardinality(hs) -> RestlastVals]} :
           hs \in SUBSET ForecastHours}

InitForecast ==
    /\ \E m \in Models : multiplier = m[1] /\ offset = m[2]
    /\ last_calibration = None
    /\ calibration_r2 = None
    /\ calibration_mae = None
    /\ calibration_samples = 0
    /\ charge_window_hours = 1
    /\ now \in {0, 1}
    /\ fn = "_calculate_price_forecast"
    /\ args \in {[ned_data |-> [forecast |-> f]] : f \in CombinedForecasts}
    /\ NoHistory
    /\ CycleIdle
    /\ ret = None

CallCalculatePriceForecast ==
    /\ fn = "_calculate_price_forecast"
    /\ ret = None
    /\ ret' = Some(CalculatePriceForecast(args.ned_data.forecast,
                                          multiplier, offset, now))
    /\ UNCHANGED <<coordVars, charge_window_hours, envVars, cycleVars, entryVars, fn, args>>

NextForecast == CallCalculatePriceForecast

SpecForecast == InitForecast /\ [][NextForecast]_vars

\* multiplier * restlast + offset for entry k of the input, in ct/kWh
ExactPrice(k) ==
    RAdd(RMul(multiplier, Rat(args.ned_data.forecast[k].restlast_gw, 1000)),
         offset)

SameEntries ==
    /\ Len(ret[1]) = Len(args.ned_data.forecast)
    /\ \A k \in 1..Len(ret[1]) :
          /\ ret[1][k].timestamp = args.ned_data.forecast[k].timestamp
          /\ ret[1][k].restlast_gw = args.ned_data.forecast[k].restlast_gw

(* C3 as claimed: one price entry per combined entry, in the same order,   *)
(* with the same timestamp and restlast, and each price equal to           *)
(* multiplier * restlast + offset.                                         *)
C3_PriceIsExactLinear ==
    (fn = "_calculate_price_forecast" /\ ret # None)
    => /\ SameEntries
       /\ \A k \in 1..Len(ret[1]) :
             Rat(ret[1][k].price, 100) = ExactPrice(k)

(* C3 as amended: one price entry per combined entry, in the same order,   *)
(* with the same timestamp and restlast, and each price is multiplier *    *)
(* restlast + offset rounded to 2 decimals: within 0.005 of it.            *)
C3_PriceIsRoundedLinear ==
    (fn = "_calculate_price_forecast" /\ ret # None)
    => /\ SameEntries
       /\ \A k \in 1..Len(ret[1]) :
             RLeq(RAbs(RSub(Rat(ret[1][k].price, 100), ExactPrice(k))),
                  Rat(1, 200))

\* A forecast of two or more entries made with a calibrated model, one of
\* them with a price that is no whole number of hundredths.
C3_Witness ==
    /\ fn = "_calculate_price_forecast" /\ ret # None
    /\ multiplier # DEFAULT_MULTIPLIER
    /\ Len(ret[1]) >= 2
    /\ \E k \in 1..Len(ret[1]) : Rat(ret[1][k].price, 100) # ExactPrice(k)

(* C8: within one price forecast, of any two entries the one with the      *)
(* later timestamp has a confidence_std, and a width price_high -          *)
(* price_low, at least as large as the earlier one's.                      *)
C8_BandWidensWithHorizon ==
    (fn = "_calculate_price_forecast" /\ ret # None)
    => \A i, j \in 1..Len(ret[1]) :
          ret[1][i].timestamp < ret[1][j].timestamp
          => /\ ret[1][i].confidence_std <= ret[1][j].confidence_std
             /\ ret[1][i].price_high - ret[1][i].price_low
                    <= ret[1][j].price_high - ret[1][j].price_low

\* A forecast with an entry in the past and one ahead, with different
\* residual loads, and a strictly wider band on the later one.
C8_Witness ==
    /\ fn = "_calculate_price_forecast" /\ ret # None
    /\ \E i, j \in 1..Len(ret[1]) :
          /\ ret[1][i].timestamp < now
          /\ ret[1][j].timestamp > now
          /\ ret[1][i].restlast_gw # ret[1][j].restlast_gw
          /\ ret[1][i].confidence_std < ret[1][j].confidence_std
          /\ ret[1][i].price_high - ret[1][i].price_low
                 < ret[1][j].price_high - ret[1][j].price_low

-----------------------------------------------------------------------------
(* Specification of _fit_linear on bounded inputs.                         *)

MaxPoints == 3                 \* longest sample list handed to _fit_linear
\* Residual loads (GW) 0, 1/32 and 1/16: two samples 1/32 apart have
\* 0 < s_xx < 0.001, two samples 1/16 apart have s_xx > 0.001.
FitXs == {RInt(0), Rat(1, 32), Rat(1, 16)}
FitYs == {RInt(1), RInt(3)}               \* prices, ct/kWh

InitFit ==
    /\ \E m \in Models : multiplier = m[1] /\ offset = m[2]
    /\ last_calibration = None
    /\ calibration_r2 = None
    /\ calibration_mae = None
    /\ calibration_samples = 0
    /\ charge_window_hours = 1
    /\ now = 0
    /\ fn = "_fit_linear"
    /\ \E n \in 0..MaxPoints :
          args \in {[xs |-> xs, ys |-> ys] :
                       xs \in [1..n -> FitXs], ys \in [1..n -> FitYs]}
    /\ NoHistory
    /\ CycleIdle
    /\ ret = None

CallFitLinear ==
    /\ fn = "_fit_linear"
    /\ ret = None
    /\ ret' = Some(FitLinear(args.xs, args.ys, multiplier, offset))
    /\ UNCHANGED <<coordVars, charge_window_hours, envVars, cycleVars, entryVars, fn, args>>

NextFit == CallFitLinear

SpecFit == InitFit /\ [][NextFit]_vars

\* sum((y - (a*x + b))^2) over the samples
SquaredResiduals(xs, ys, a, b) ==
    RSum([k \in 1..Len(xs) |->
             LET r == RSub(ys[k], RAdd(RMul(a, xs[k]), b))
             IN  RMul(r, r)])

\* Other lines to compare the returned one with: a grid, and the returned
\* line with its slope or intercept moved a little or a lot.
Steps == {Rat(-1, 1), Rat(-1, 8), RInt(0), Rat(1, 8), RInt(1)}
OtherLines(line) ==
    {<<RAdd(line[1], da), RAdd(line[2], db)>> : da \in Steps, db \in Steps}
        \cup {<<RInt(a), RInt(b)>> : a \in {-32, 0, 32}, b \in 1..3}

NoBetterLine(xs, ys, line) ==
    \A other \in OtherLines(line) :
        RLeq(SquaredResiduals(xs, ys, line[1], line[2]),
             SquaredResiduals(xs, ys, other[1], other[2]))

\* s_xx = sum((x - mean_x)^2)
SumSquaredDeviation(xs) ==
    LET mean == RDiv(RSum(xs), RInt(Len(xs)))
    IN  RSum([k \in 1..Len(xs) |->
                 RMul(RSub(xs[k], mean), RSub(xs[k], mean))])

(* C6 as claimed: for at least 2 paired samples _fit_linear returns a line *)
(* that no other line beats in the sum of squared residuals.               *)
C6_FitIsLeastSquares ==
    (fn = "_fit_linear" /\ ret # None /\ Len(args.xs) >= 2)
    => NoBetterLine(args.xs, args.ys, ret[1])

(* C6 as amended: for at least 2 paired samples whose x values have a sum  *)
(* of squared deviations from their mean s_xx >= 0.001, _fit_linear        *)
(* returns the least-squares line (no other line has a smaller sum of      *)
(* squared residuals; the residuals sum to 0 and are orthogonal to x);     *)
(* with fewer than 2 samples or s_xx < 0.001 it returns the stored         *)
(* (multiplier, offset).                                                   *)
C6_FitIsLeastSquaresUnlessDegenerate ==
    (fn = "_fit_linear" /\ ret # None)
    => IF Len(args.xs) >= 2
          /\ ~RLess(SumSquaredDeviation(args.xs), Rat(1, 1000))
       THEN /\ NoBetterLine(args.xs, args.ys, ret[1])
            /\ RSum([k \in 1..Len(args.xs) |->
                        RSub(args.ys[k],
                             RAdd(RMul(ret[1][1], args.xs[k]), ret[1][2]))])
                 = RInt(0)
            /\ RSum([k \in 1..Len(args.xs) |->
                        RMul(args.xs[k],
                             RSub(args.ys[k],
                                  RAdd(RMul(ret[1][1], args.xs[k]), ret[1][2])))])
                 = RInt(0)
       ELSE ret[1] = <<multiplier, offset>>

\* Three samples not on one line, fitted with a line that is not the
\* stored one and leaves a residual.
C6_Witness ==
    /\ fn = "_fit_linear" /\ ret # None
    /\ Len(args.xs) = 3
    /\ ret[1] # <<multiplier, offset>>
    /\ SquaredResiduals(args.xs, args.ys, ret[1][1], ret[1][2]) # RInt(0)

-----------------------------------------------------------------------------
(* Specification of _calibrate_model on bounded histories.                 *)

\* What the price sensor and the restlast sensor showed hour after hour:
\* patterns of <<restlast (GW), price state>> that repeat.
\*   1: price = 1 * restlast + 1 exactly          2: falling price
\*   3: offset 25                                 4: constant restlast
\*   5: constant price                            6: R2 = 0.25
\*   7: R2 = 3/28, slope 0.5                      8: price sensor in EUR/kWh
SamplePatterns ==
    { << <<RInt(0), RInt(1)>>, <<RInt(1), RInt(2)>> >>,
      << <<RInt(0), RInt(3)>>, <<RInt(1), RInt(2)>> >>,
      << <<RInt(0), RInt(25)>>, <<RInt(1), RInt(26)>> >>,
      << <<RInt(1), RInt(1)>>, <<RInt(1), RInt(3)>> >>,
      << <<RInt(0), RInt(2)>>, <<RInt(1), RInt(2)>> >>,
      << <<RInt(0), RInt(1)>>, <<RInt(1), RInt(3)>>, <<RInt(2), RInt(2)>> >>,
      << <<RInt(0), RInt(1)>>, <<RInt(1), RInt(4)>>, <<RInt(2), RInt(2)>> >>,
      << <<RInt(0), Rat(1, 100)>>, <<RInt(2), Rat(3, 100)>> >> }
MinReps == 16                  \* 32 or 48 states of history at least
RepsVals == {MinReps, MinReps + 1, MinReps + 9}

\* The restlast sensor's history: as long as the price history, or short
\* by `less` repetitions of the pattern.
RestlastHistories(sp, r) ==
    {[kind |-> "error"], [kind |-> "no_entity"]}
    \cup {[kind |-> "states", first |-> 0, step |-> 2, reps |-> r - less,
           raw_today |-> <<>>,
           pattern |-> [k \in 1..Len(sp) |-> Some(sp[k][1])]] :
              less \in {0, 1}}

Histories ==
    {<<[kind |-> k], [kind |-> "no_entity"]>> : k \in {"error", "no_entity"}}
    \cup UNION {UNION {
           {<<[kind |-> "states", first |-> 0, step |-> 2, reps |-> r,
               raw_today |-> <<>>,
               pattern |-> [k \in 1..Len(sp) |-> Some(sp[k][2])]], rh>> :
                 rh \in RestlastHistories(sp, r)} :
           r \in RepsVals} : sp \in SamplePatterns}
    \cup {<<[kind |-> "states", first |-> 0, step |-> 2, reps |-> MinReps + 9,
             raw_today |-> <<>>,
             pattern |-> <<Some(RInt(1)), None, Some(RInt(2))>>],
            [kind |-> "states", first |-> 0, step |-> 2, reps |-> MinReps + 9,
             raw_today |-> <<>>,
             pattern |-> <<Some(RInt(0)), Some(RInt(1)), Some(RInt(1))>>]>>,
          \* a price sensor of the Nordpool kind: no number as its state,
          \* the day's prices in raw_today
          <<[kind |-> "states", first |-> 0, step |-> 2, reps |-> MinReps + 9,
             raw_today |-> <<[start |-> 0, value |-> Rat(1, 100)],
                             [start |-> 2, value |-> Rat(1, 50)]>>,
             pattern |-> <<None>>],
            [kind |-> "states", first |-> 0, step |-> 2, reps |-> MinReps + 9,
             raw_today |-> <<>>,
             pattern |-> <<Some(RInt(0)), Some(RInt(1))>>]>>,
          \* a restlast sensor that changed every half hour: on the hour
          \* the value the price follows, in between another one
          <<[kind |-> "states", first |-> 0, step |-> 2, reps |-> MinReps + 9,
             raw_today |-> <<>>,
             pattern |-> <<Some(RInt(1)), Some(RInt(2))>>],
            [kind |-> "states", first |-> 0, step |-> 1, reps |-> MinReps + 9,
             raw_today |-> <<>>,
             pattern |-> <<Some(RInt(0)), Some(RInt(9)),
                           Some(RInt(1)), Some(RInt(9))>>]>>}

InitCalib ==
    /\ \E m \in Models : multiplier = m[1] /\ offset = m[2]
    /\ last_calibration = None
    /\ calibration_r2 = None
    /\ calibration_mae = None
    /\ calibration_samples = 0
    /\ charge_window_hours = 1
    /\ now \in {0, 1}
    /\ \E h \in Histories : price_history = h[1] /\ restlast_history = h[2]
    /\ CycleIdle
    /\ fn = "_calibrate_model"
    /\ args = <<>>
    /\ ret = None

CallCalibrateModel ==
    /\ fn = "_calibrate_model"
    /\ ret = None
    /\ RunCalibration
    /\ ret' = Some(None)
    /\ UNCHANGED <<charge_window_hours, envVars, cycleVars, entryVars, fn, args>>

NextCalib == CallCalibrateModel

SpecCalib == InitCalib /\ [][NextCalib]_vars

\* The samples a calibration run on the present histories fits.
Matched ==
    LET historical_prices == GetHistoricalPrices(price_history)
    IN  MatchData(historical_prices,
            GetHistoricalRestlast(restlast_history,
                [k \in 1..Len(historical_prices) |->
                    historical_prices[k].timestamp]))

CalibrationRun == fn = "_calibrate_model" /\ ret = None /\ ret' # None

\* 1 - ss_res/ss_tot of the line (a, b) on the samples exceeds 0.2:
\* ss_tot > 0 and 5 * ss_res < 4 * ss_tot.
DeterminationAboveThreshold(samples, a, b) ==
    LET n == Len(samples)
        mean == RDiv(RSum([k \in 1..n |-> samples[k].price]), RInt(n))
        ss_tot == RSum([k \in 1..n |->
                     RMul(RSub(samples[k].price, mean),
                          RSub(samples[k].price, mean))])
        res(k) == RSub(samples[k].price,
                       RAdd(RMul(a, samples[k].restlast), b))
        ss_res == RSum([k \in 1..n |-> RMul(res(k), res(k))])
    IN  /\ n > 0
        /\ RLess(RInt(0), ss_tot)
        /\ RLess(RMul(RInt(5), ss_res), RMul(RInt(4), ss_tot))

\* C4: a calibration run changes the stored multiplier or offset only if
\* the coefficient of determination of the line it stores, on the matched
\* samples, exceeds 0.2; every other run keeps multiplier and offset.
C4_ModelReplacedOnlyAboveThreshold ==
    [][(CalibrationRun /\ <<multiplier, offset>>' # <<multiplier, offset>>)
          => DeterminationAboveThreshold(Matched, multiplier', offset')]_vars

\* A run stored a fit with R2 = 0.25; another history would have been
\* refused for its R2 (3/28) alone.
C4_Witness ==
    /\ fn = "_calibrate_model" /\ ret # None
    /\ calibration_r2 = Some(Rat(1, 4))
    /\ multiplier = Rat(1, 2) /\ offset = Rat(3, 2)
    /\ calibration_samples >= 50

\* C5: a calibration run that obtains fewer than 50 historical prices, or
\* fewer than 50 matched pairs, leaves multiplier, offset, calibration_r2,
\* calibration_mae, calibration_samples and last_calibration unchanged.
C5_TooFewSamplesChangeNothing ==
    [][(/\ CalibrationRun
        /\ \/ Len(GetHistoricalPrices(price_history)) < 50
           \/ Len(Matched) < 50)
          => UNCHANGED coordVars]_vars

\* A run had 50 prices, 48 of them matched, on a perfect line, and left
\* the model as constructed.
C5_Witness ==
    /\ fn = "_calibrate_model" /\ ret # None
    /\ Len(GetHistoricalPrices(price_history)) >= 50
    /\ Len(Matched) \in 40..49
    /\ DeterminationAboveThreshold(Matched, RInt(1), RInt(1))
    /\ last_calibration = None /\ calibration_samples = 0

-----------------------------------------------------------------------------
(* Specification of the coordinator's update cycles.                       *)

MaxNow == 2                    \* the clock runs from hour 0 to this hour

\* Answers of the NED API: the "values" of a series.
ConsumptionAnswers ==
    { <<>>,
      <<[validfrom |-> Some(0), value |-> 12000],
        [validfrom |-> Some(4), value |-> 10000]>> }
ProductionAnswers ==
    { <<[validfrom |-> Some(0), value |-> 2000],
        [validfrom |-> Some(4), value |-> 3000]>> }
Answers(s) == IF s = "consumption" THEN ConsumptionAnswers ELSE ProductionAnswers

\* The recorder has no history, fails, has a history on a perfect line, one
\* that fits
\* with R2 = 0.25, or one that fits badly (R2 = 3/28).
CycleHistories ==
    {h \in Histories :
        \/ h[1].kind \in {"no_entity", "error"}
        \/ /\ h[1].kind = "states" /\ h[2].kind = "states"
           /\ h[1].reps = MinReps + 9 /\ h[2].reps = MinReps + 9
           /\ h[1].pattern \in {<<Some(RInt(1)), Some(RInt(2))>>,
                                <<Some(RInt(1)), Some(RInt(3)), Some(RInt(2))>>,
                                <<Some(RInt(1)), Some(RInt(4)), Some(RInt(2))>>}
           /\ h[2].step = 2}

Init ==
    /\ InitCoordinator
    /\ charge_window_hours = 1
    /\ now = 0
    /\ \E h \in CycleHistories : price_history = h[1] /\ restlast_history = h[2]
    /\ CycleIdle
    /\ fn = "_async_update_data"
    /\ args = <<>>
    /\ ret = None

\* An hour passes between two cycles.
Tick ==
    /\ pc = "idle"
    /\ now < MaxNow
    /\ now' = now + 1
    /\ UNCHANGED <<coordVars, charge_window_hours, price_history,
                   restlast_history, cycleVars, entryVars, fn, args, ret>>

Next ==
    \/ AsyncUpdateData
    \/ \E s \in Series : FetchNedDataType(s, Answers(s))
    \/ FetchNedForecast
    \/ CalibrateIfDue
    \/ ReturnResult
    \/ Tick

Spec == Init /\ [][Next]_vars

\* A request of the running or last cycle has failed.
AFetchFailed == \E s \in Series : IsException(fetch[s])

\* C9: if any of the four fetches of a cycle fails, the cycle ends with
\* UpdateFailed: it returns no result, runs no calibration, and leaves
\* multiplier, offset and the calibration fields unchanged.
C9_FailedFetchFailsTheCycle ==
    [][AFetchFailed =>
          /\ UNCHANGED coordVars
          /\ pc' \in {"idle", "fetching"}
          /\ (pc = "fetching" /\ pc' = "idle")
                => /\ outcome' # None
                   /\ outcome'[1].kind = "UpdateFailed"
          /\ (outcome' # None => outcome'[1].kind = "UpdateFailed")]_vars

\* A cycle in which only the solar request failed, by its HTTP status,
\* ended with UpdateFailed after an earlier cycle had calibrated.
C9_Witness ==
    /\ pc = "idle"
    /\ outcome # None /\ outcome[1].kind = "UpdateFailed"
    /\ outcome[1].series = "solar" /\ outcome[1].error = "http_error"
    /\ \A s \in Series \ {"solar"} : fetch[s].status = "ok"
    /\ last_calibration # None /\ multiplier = RInt(1)

\* Calibration is due: none has been accepted, or the last one was accepted
\* calibration_interval hours ago or more.
Due ==
    \/ last_calibration = None
    \/ now >= last_calibration[1] + calibration_interval

\* An update cycle ends, with a result or with UpdateFailed.
CycleEnds == pc # "idle" /\ pc' = "idle"

(* C11 as claimed: a cycle attempts calibration if and only if none has     *)
(* been accepted yet or the last was accepted calibration_interval hours    *)
(* ago or more; so a cycle that ends while calibration is due has           *)
(* attempted it.                                                            *)
C11_CalibrationIsPeriodic ==
    [][/\ (pc = "calibrate" /\ pc' # "calibrate") => (attempted' <=> Due)
       /\ (CycleEnds /\ Due) => attempted']_vars

(* C11 as amended: a cycle whose four fetches succeed attempts calibration  *)
(* if and only if it is due; a cycle in which a fetch fails attempts none.  *)
C11_CalibrationIsPeriodicWhenFetched ==
    [][/\ (pc = "calibrate" /\ pc' # "calibrate") => (attempted' <=> Due)
       /\ (CycleEnds /\ Due /\ ~AFetchFailed) => attempted'
       /\ (CycleEnds /\ AFetchFailed) => ~attempted']_vars

\* A calibration was accepted at hour 0 and the cycle at hour 1, less than
\* calibration_interval later, has returned its result without attempting.
C11_Witness ==
    /\ pc = "idle" /\ outcome # None /\ outcome[1].kind = "result"
    /\ ~attempted
    /\ last_calibration = Some(0)
    /\ now = 1 /\ now < calibration_interval
    /\ calibration_samples >= 50

\* The steps of a cycle in the order the code takes them.
CycleOrder ==
    {<<"idle", "fetching">>, <<"fetching", "idle">>,
     <<"fetching", "calibrate">>, <<"calibrate", "forecast">>,
     <<"forecast", "idle">>}

\* The result's prices are those of the model in its calibration block.
PricesOfReportedModel(result) ==
    /\ Len(result.price_forecast) = Len(result.forecast)
    /\ \A k \in 1..Len(result.forecast) :
          RLeq(RAbs(RSub(Rat(result.price_forecast[k].price, 100),
                         RAdd(RMul(result.calibration.multiplier,
                                   Rat(result.forecast[k].restlast_gw, 1000)),
                              result.calibration.offset))),
               Rat(1, 200))

\* C12: a cycle fetches, calibrates if due, forecasts and advises in this
\* order: the model changes only in the calibration step, the result is
\* made after it, and the multiplier and offset in the result's calibration
\* block are the stored ones and the ones every price of the result is
\* computed with.
C12_ForecastUsesCalibratedModel ==
    /\ [](outcome # None /\ outcome[1].kind = "result"
            => /\ outcome[1].calibration = Self
               /\ PricesOfReportedModel(outcome[1]))
    /\ [][/\ pc' # pc => <<pc, pc'>> \in CycleOrder
          /\ coordVars' # coordVars => pc = "calibrate"
          /\ (outcome' # outcome /\ outcome' # None
                 /\ outcome'[1].kind = "result") => pc = "forecast"]_vars

\* A cycle has calibrated and returned prices for two hours made with the
\* new model.
C12_Witness ==
    /\ outcome # None /\ outcome[1].kind = "result"
    /\ attempted
    /\ outcome[1].calibration.multiplier = RInt(1)
    /\ outcome[1].calibration.last_calibration = Some(now)
    /\ Len(outcome[1].price_forecast) = 2
    /\ PricesOfReportedModel(outcome[1])

\* C13: a window returned by _find_best_window for N hours covers N
\* consecutive hours: its end is N - 1 hours after its start, also when
\* hours are missing from the list.
C13_WindowCoversConsecutiveHours ==
    (fn = "_find_best_window" /\ ret # None /\ ret[1] # None)
    => ret[1][1].end = ret[1][1].start + charge_window_hours - 1

\* C14: with advice wait_2_3_days or wait_4_7_days the savings are strictly
\* positive and best_window has a lower average price than the near window;
\* with advice charge_now or no_data the savings are 0.
C14_WaitingSavesMoney ==
    (fn = "_calculate_charge_advice" /\ ret # None)
    => IF ret[1].advice \in {ADVICE_WAIT_2_3_DAYS, ADVICE_WAIT_4_7_DAYS}
       THEN /\ ret[1].savings_ct_per_kwh > 0
            /\ ret[1].best_window # None
            /\ ret[1].best_window[1].avg_price
                   < ret[1].window_now[1].avg_price
       ELSE ret[1].savings_ct_per_kwh = 0

\* The restlast points a calibration run on the present histories reads.
HistoricalRestlast ==
    LET historical_prices == GetHistoricalPrices(price_history)
    IN  GetHistoricalRestlast(restlast_history,
            [k \in 1..Len(historical_prices) |->
                historical_prices[k].timestamp])

\* The values of the restlast points closest in time to ts among those
\* less than an hour (2 half hours) from it.
ClosestWithinHour(ts, historical_restlast) ==
    LET near == {k \in 1..Len(historical_restlast) :
                    Abs(ts - historical_restlast[k][1]) < 2}
    IN  {historical_restlast[k][2] :
            k \in {j \in near :
                      \A other \in near :
                          Abs(ts - historical_restlast[j][1])
                              <= Abs(ts - historical_restlast[other][1])}}

\* C15: calibration pairs each historical price with the restlast point
\* closest to it in time among those less than 1 hour away, and leaves it
\* unmatched only when no restlast point lies within 1 hour.
C15_PricePairedWithClosestRestlast ==
    (fn = "_calibrate_model" /\ ret # None)
    => LET historical_prices == GetHistoricalPrices(price_history)
       IN  \A k \in 1..Len(historical_prices) :
              LET closest == ClosestWithinHour(historical_prices[k].timestamp,
                                               HistoricalRestlast)
                  matched == MatchOf(historical_prices[k], HistoricalRestlast)
              IN  IF closest = {} THEN matched = <<>>
                  ELSE /\ Len(matched) = 1
                       /\ matched[1].restlast \in closest

\* The places in the forecast of the entries from `from` to less than `to`
\* hours ahead of now.
PlacesAhead(from, to) ==
    {k \in 1..Len(args.price_forecast) :
        /\ from <= args.price_forecast[k].timestamp - now
        /\ args.price_forecast[k].timestamp - now < to}

\* `list` is the forecast's entries at `places`, in the forecast's order.
KeepsInOrder(list, places) ==
    /\ Len(list) = Cardinality(places)
    /\ \A i \in 1..Len(list) :
          list[i] = args.price_forecast[
                        CHOOSE k \in places :
                            Cardinality({j \in places : j < k}) = i - 1]

\* A window lies within the hours from `from` to less than `to` ahead.
WindowWithin(window, from, to) ==
    window # None
    => /\ from <= window[1].start - now /\ window[1].start - now < to
       /\ from <= window[1].end - now /\ window[1].end - now < to

\* C16: the horizons are the forecast's entries 0 to 48, 48 to 96 and 96 to
\* 168 hours ahead of now (the upper ends excluded), each in forecast order:
\* no entry is in two horizons, entries in the past or 168 hours or more
\* ahead are in none, and each window lies within its horizon.
C16_HorizonsPartitionForecast ==
    (fn = "_calculate_charge_advice" /\ ret # None)
    => /\ KeepsInOrder(HorizonEntries(args.price_forecast, now, 0, 48),
                       PlacesAhead(0, 48))
       /\ KeepsInOrder(HorizonEntries(args.price_forecast, now, 48, 96),
                       PlacesAhead(48, 96))
       /\ KeepsInOrder(HorizonEntries(args.price_forecast, now, 96, 168),
                       PlacesAhead(96, 168))
       /\ args.price_forecast # <<>>
            => /\ WindowWithin(ret[1].window_now, 0, 48)
               /\ WindowWithin(ret[1].window_later, 48, 96)
               /\ WindowWithin(ret[1].window_much_later, 96, 168)

\* A forecast with an entry in the past, one 47 and one 95 hours ahead, the
\* last hours of the near and the mid horizon: with now = 1 and entries at
\* hours 0, 48 and 96 the far horizon is empty.
C16_Witness ==
    /\ fn = "_calculate_charge_advice" /\ ret # None
    /\ now = 1
    /\ Len(args.price_forecast) = 3
    /\ args.price_forecast[1].timestamp = 0
    /\ args.price_forecast[3].timestamp = 96
    /\ ret[1].window_now # None /\ ret[1].window_now[1].start = 48
    /\ ret[1].window_later # None /\ ret[1].window_later[1].start = 96
    /\ ret[1].window_much_later = None

\* The clock hours that hold a consumption sample with a timestamp.
ConsumptionHours ==
    {HourKey(args.consumption[k].validfrom[1]) :
        k \in {j \in 1..Len(args.consumption) :
                  args.consumption[j].validfrom # None}}

\* C17: the combined forecast has exactly one entry per clock hour that
\* holds a consumption sample with a parseable timestamp, and its entries
\* are in strictly increasing timestamp order, whatever the samples' order.
C17_OneEntryPerHourInOrder ==
    (fn = "_combine_ned_data" /\ ret # None)
    => /\ {ret[1][k].timestamp : k \in 1..Len(ret[1])} = ConsumptionHours
       /\ Len(ret[1]) = Cardinality(ConsumptionHours)
       /\ \A k \in 1..(Len(ret[1]) - 1) :
             ret[1][k].timestamp < ret[1][k + 1].timestamp

\* Samples of hour 1, of no hour and of hour 0, in this order, combined
\* into the entries of hour 0 and hour 1.
C17_Witness ==
    /\ fn = "_combine_ned_data" /\ ret # None
    /\ Len(args.consumption) = 3
    /\ args.consumption[1].validfrom = Some(4)
    /\ args.consumption[2].validfrom = None
    /\ args.consumption[3].validfrom = Some(0)
    /\ Len(ret[1]) = 2
    /\ ret[1][1].timestamp = 0 /\ ret[1][2].timestamp = 1

\* C18: at all times 0 < multiplier < 10 and -20 < offset < 20;
\* last_calibration is unset exactly when calibration_samples is 0,
\* calibration_samples is 0 or at least 50, and calibration_r2 is unset or
\* in (0.2, 1].
C18_StoredModelIsPlausible ==
    /\ RLess(RInt(0), multiplier) /\ RLess(multiplier, RInt(10))
    /\ RLess(RInt(-20), offset) /\ RLess(offset, RInt(20))
    /\ (last_calibration = None) <=> (calibration_samples = 0)
    /\ calibration_samples = 0 \/ calibration_samples >= 50
    /\ \/ calibration_r2 = None
       \/ /\ RLess(Rat(1, 5), calibration_r2[1])
          /\ RLeq(calibration_r2[1], RInt(1))

\* A calibration with R2 = 0.25 on 75 samples was accepted in an earlier
\* cycle, and a later cycle has ended.
C18_Witness ==
    /\ pc = "idle" /\ outcome # None
    /\ last_calibration # None /\ last_calibration[1] < now
    /\ calibration_r2 = Some(Rat(1, 4))
    /\ calibration_samples = 75
    /\ multiplier = Rat(1, 2) /\ offset = Rat(3, 2)

\* The step stores a model: the run was accepted.
RunAccepted ==
    /\ last_calibration' = Some(now)
    /\ calibration_r2' # None /\ calibration_samples' >= 50

\* The cycle's calibration has been attempted and not accepted.
NotAccepted ==
    /\ pc = "forecast" /\ attempted
    /\ last_calibration # Some(now) \/ calibration_r2 = None

\* A calibration run that is not accepted changes none of the six fields
\* and the cycle goes on to return a result made with the model as it was.
UnacceptedRunIsHarmless ==
    /\ (pc = "calibrate" /\ pc' # "calibrate" /\ ~RunAccepted)
          => (UNCHANGED coordVars /\ pc' = "forecast")
    /\ (NotAccepted /\ pc' # pc)
          => /\ UNCHANGED coordVars
             /\ outcome' # None /\ outcome'[1].kind = "result"
             /\ outcome'[1].calibration = Self
             /\ PricesOfReportedModel(outcome'[1])

(* C19 as claimed: a calibration run that is not accepted never fails the   *)
(* cycle, which returns a forecast made with the previous model, and       *)
(* changes none of the six fields; every update cycle that ends while      *)
(* calibration is still due has attempted it.                              *)
C19_UnacceptedCalibrationIsRetried ==
    [][/\ UnacceptedRunIsHarmless
       /\ (CycleEnds /\ Due) => attempted']_vars

(* C19 as amended: the same, with the attempt in every update cycle whose  *)
(* four fetches succeed and that ends while calibration is still due.      *)
C19_UnacceptedCalibrationIsRetriedWhenFetched ==
    [][/\ UnacceptedRunIsHarmless
       /\ (CycleEnds /\ Due /\ ~AFetchFailed)
             => attempted']_vars

\* With a history that fits badly, a cycle after the first one, an hour or
\* more later, has attempted calibration again and returned a result with
\* the model as constructed.
C19_Witness ==
    /\ pc = "idle" /\ attempted /\ now >= 1
    /\ price_history.kind = "states"
    /\ last_calibration = None /\ calibration_samples = 0
    /\ multiplier = DEFAULT_MULTIPLIER /\ offset = DEFAULT_OFFSET
    /\ outcome # None /\ outcome[1].kind = "result"
    /\ outcome[1].calibration.multiplier = DEFAULT_MULTIPLIER
    /\ Len(outcome[1].price_forecast) > 0

(* C20: every entry of a price forecast has price_low <= price <=          *)
(* price_high, for timestamps in the past of the update as well.           *)
C20_PriceWithinBand ==
    (fn = "_calculate_price_forecast" /\ ret # None)
    => \A k \in 1..Len(ret[1]) :
          /\ ret[1][k].price_low <= ret[1][k].price
          /\ ret[1][k].price <= ret[1][k].price_high

-----------------------------------------------------------------------------
\* The number of entries of the forecast from `from` hours ahead of t up to,
\* not including, `to` hours ahead.
CountAhead(price_forecast, t, from, to) ==
    Cardinality({k \in 1..Len(price_forecast) :
                    from <= price_forecast[k].timestamp - t
                    /\ price_forecast[k].timestamp - t < to})

(* C21: _find_best_window returns no window exactly when its list holds    *)
(* fewer than N samples; the advice is no_data, with best_window unset and *)
(* savings 0, exactly when the forecast is empty or the near horizon       *)
(* [0, 48h) holds fewer than N samples, whatever the mid and far horizons  *)
(* hold.                                                                   *)
C21_NoDataIffNearHorizonTooShort ==
    (fn = "_calculate_charge_advice" /\ ret # None)
    => LET r == ret[1]
           pf == args.price_forecast
           N == charge_window_hours
           tooShort == pf = <<>> \/ CountAhead(pf, now, 0, 48) < N
       IN  /\ r.advice = ADVICE_NO_DATA <=> tooShort
           /\ tooShort => (r.best_window = None /\ r.savings_ct_per_kwh = 0)
           /\ ~tooShort => r.best_window # None
           /\ pf # <<>> =>
                 /\ r.window_now = None <=> CountAhead(pf, now, 0, 48) < N
                 /\ r.window_later = None <=> CountAhead(pf, now, 48, 96) < N
                 /\ r.window_much_later = None
                        <=> CountAhead(pf, now, 96, 168) < N

\* No advice although the forecast is not empty and the mid and the far
\* horizon each hold a window.
C21_Witness ==
    /\ fn = "_calculate_charge_advice" /\ ret # None
    /\ args.price_forecast # <<>>
    /\ ret[1].advice = ADVICE_NO_DATA
    /\ ret[1].window_now = None
    /\ ret[1].window_later # None
    /\ ret[1].window_much_later # None

-----------------------------------------------------------------------------
(* Specification of the fetch of an update cycle, with the order in which  *)
(* the four requests end recorded in `completed`.  Each series has its own *)
(* answer, so that a result handed to the wrong series shows.              *)

SeriesValue(s) ==
    CASE s = "consumption" -> 12000
      [] s = "wind_onshore" -> 3000
      [] s = "wind_offshore" -> 2000
      [] s = "solar" -> 1000

\* The "values" the NED API answers a request for series s with
FetchAnswers(s) == {<<[validfrom |-> Some(0), value |-> SeriesValue(s)]>>}

InitFetch ==
    /\ InitCoordinator
    /\ charge_window_hours = 1
    /\ now = 0
    /\ NoHistory
    /\ pc = "idle"
    /\ fetch = [s \in Series |-> [status |-> "none", values |-> <<>>]]
    /\ ned_data = None
    /\ outcome = None
    /\ attempted = FALSE
    /\ completed = Some(<<>>)
    /\ NoEntries
    /\ fn = "_fetch_ned_forecast"
    /\ args = <<>>
    /\ ret = None

NextFetch ==
    \/ AsyncUpdateData
    \/ \E s \in Series : FetchNedDataType(s, FetchAnswers(s))
    \/ FetchNedForecast
    \/ CalibrateIfDue
    \/ ReturnResult

SpecFetch == InitFetch /\ [][NextFetch]_vars

\* The requests that have ended, in the order in which they ended
Ended == {completed[1][i] : i \in 1..Len(completed[1])}

\* Entry 1 of the combined forecast holds each series' own answer.
EachSeriesOwnAnswer(forecast) ==
    /\ Len(forecast) = 1
    /\ forecast[1].consumption_gw = SeriesValue("consumption")
    /\ forecast[1].wind_onshore_gw = SeriesValue("wind_onshore")
    /\ forecast[1].wind_offshore_gw = SeriesValue("wind_offshore")
    /\ forecast[1].solar_gw = SeriesValue("solar")

(* C22: the four fetches of a cycle run concurrently: while the cycle      *)
(* fetches, every request not yet ended can end next.  Whatever the order  *)
(* in which they end, each answer goes to the series of its request; the   *)
(* series are combined, or a failure is reported (that of the first failed *)
(* request by position), only when all four requests have ended.           *)
C22_GatheredByRequestPosition ==
    /\ [](/\ pc = "fetching" =>
               /\ \A s \in Series :
                     (fetch[s].status = "pending") <=> (s \notin Ended)
               /\ \A s \in Series \ Ended :
                     ENABLED FetchNedDataType(s, FetchAnswers(s))
          /\ pc # "fetching" =>
               \A s \in Series : fetch[s].status # "pending"
          /\ ned_data # None => EachSeriesOwnAnswer(ned_data[1]))
    /\ [][(pc = "fetching" /\ pc' # "fetching")
             => /\ Ended = Series /\ Len(completed[1]) = Len(Tasks)
                /\ IF \E s \in Series : IsException(fetch[s])
                   THEN /\ ned_data' = None /\ outcome' # None
                        /\ outcome'[1].kind = "UpdateFailed"
                        /\ IsException(fetch[outcome'[1].series])
                        /\ \A i \in 1..(Position(outcome'[1].series) - 1) :
                              ~IsException(fetch[Tasks[i]])
                   ELSE /\ outcome' = None /\ ned_data' # None
                        /\ EachSeriesOwnAnswer(ned_data'[1])]_vars

\* The requests ended in the reverse of the order in which they were made,
\* and the series are combined.
C22_Witness ==
    /\ pc = "calibrate"
    /\ completed = Some(<<"solar", "wind_offshore", "wind_onshore",
                          "consumption">>)
    /\ ned_data # None
    /\ ned_data[1][1].consumption_gw = SeriesValue("consumption")
    /\ ned_data[1][1].solar_gw = SeriesValue("solar")

-----------------------------------------------------------------------------
(* __init__.py: the lifecycle of a config entry                            *)
(*                                                                         *)
(* hass_data[e] is None or Some(coordinator), a coordinator being the      *)
(* state of its HTTP session ("open", "closed"); platforms holds the       *)
(* entries whose sensor platform has been forwarded.  An entry is its      *)
(* data (does it hold an API token) and what the NED API would do at its   *)
(* first refresh; ret[e] is how the last setup of entry e ended.           *)

\* The names const.py defines
ConstNames ==
    {"DOMAIN", "NAME", "CONF_API_TOKEN", "CONF_PRICE_ENTITY",
     "CONF_CALIBRATION_DAYS", "CONF_CALIBRATION_INTERVAL",
     "CONF_CHARGE_WINDOW_HOURS", "DEFAULT_CALIBRATION_DAYS",
     "DEFAULT_CALIBRATION_INTERVAL", "DEFAULT_CHARGE_WINDOW_HOURS",
     "DEFAULT_MULTIPLIER", "DEFAULT_OFFSET", "UPDATE_INTERVAL",
     "NED_API_BASE", "API_ENDPOINT", "NED_API_TIMEOUT",
     "DATA_TYPE_WIND_ONSHORE", "DATA_TYPE_SOLAR", "DATA_TYPE_WIND_OFFSHORE",
     "DATA_TYPE_CONSUMPTION", "CLASSIFICATION_FORECAST",
     "ACTIVITY_PRODUCTION", "ACTIVITY_CONSUMPTION", "GRANULARITY_HOURLY",
     "GRANULARITY_TIMEZONE_CET", "ADVICE_CHARGE_NOW", "ADVICE_WAIT_2_3_DAYS",
     "ADVICE_WAIT_4_7_DAYS", "ADVICE_NO_DATA", "ADVICE_UNCERTAIN"}

\* "from .const import DOMAIN, CONF_API_TOKEN, CONF_EPEX_MULTIPLIER,
\* CONF_EPEX_OFFSET" in __init__.py
InitImports ==
    {"DOMAIN", "CONF_API_TOKEN", "CONF_EPEX_MULTIPLIER", "CONF_EPEX_OFFSET"}

\* The CONF_ names coordinator.py imports from const.py
CoordinatorImports ==
    {"CONF_PRICE_ENTITY", "CONF_CALIBRATION_DAYS",
     "CONF_CALIBRATION_INTERVAL", "CONF_CHARGE_WINDOW_HOURS"}

\* The CONF_ names NEDEPEXCoordinator.__init__ uses
CoordinatorUses ==
    {"CONF_API_TOKEN", "CONF_PRICE_ENTITY", "CONF_CALIBRATION_DAYS",
     "CONF_CALIBRATION_INTERVAL", "CONF_CHARGE_WINDOW_HOURS"}

\* "def __init__(self, hass: HomeAssistant, entry)"
CoordinatorParams == <<"hass", "entry">>

\* "NEDEPEXCoordinator(hass, api_token, multiplier, offset)"
SetupCallArgs == <<"hass", "api_token", "multiplier", "offset">>

\* The import of the package succeeds: every imported name exists.
Imported == InitImports \subseteq ConstNames

\* How async_setup_entry ends for an entry: the exception it leaves with,
\* or "True".
SetupResult(entry) ==
    IF ~Imported THEN "ImportError"
    ELSE IF ~entry.has_token THEN "KeyError"
    ELSE IF Len(SetupCallArgs) # Len(CoordinatorParams) THEN "TypeError"
    ELSE IF ~(CoordinatorUses \subseteq CoordinatorImports) THEN "NameError"
    ELSE IF entry.first_refresh # "ok" THEN "ConfigEntryNotReady"
    ELSE "True"

\* The integration is loaded and async_setup_entry is called for entry e.
AsyncSetupEntry(e) ==
    /\ fn = "async_setup_entry"
    /\ \E result \in {SetupResult(args[e])} :
          /\ ret' = [ret EXCEPT ![e] = Some(result)]
          /\ IF result = "True"
             THEN /\ hass_data' = [hass_data EXCEPT ![e] = Some("open")]
                  /\ platforms' = platforms \cup {e}
             ELSE UNCHANGED entryVars
    /\ UNCHANGED <<coordVars, charge_window_hours, envVars, cycleVars, fn, args>>

\* async_unload_entry is called for entry e, which the host does for an
\* entry whose setup returned True only.
AsyncUnloadEntry(e) ==
    /\ fn = "async_setup_entry"
    /\ Imported
    /\ ret[e] = Some("True")
    /\ \E unload_ok \in BOOLEAN :
          IF unload_ok
          THEN /\ hass_data' = [hass_data EXCEPT ![e] = None]
               /\ platforms' = platforms \ {e}
               /\ ret' = [ret EXCEPT ![e] = None]
          ELSE UNCHANGED <<entryVars, ret>>
    /\ UNCHANGED <<coordVars, charge_window_hours, envVars, cycleVars, fn, args>>

\* Config entries: with or without an API token in their data, and with
\* the NED API answering or failing at the first refresh.
Entries ==
    [has_token : BOOLEAN,
     first_refresh : {"ok", "timeout", "client_error", "http_error"}]

InitEntry ==
    /\ InitCoordinator
    /\ charge_window_hours = 1
    /\ now = 0
    /\ NoHistory
    /\ CycleIdle
    /\ fn = "async_setup_entry"
    /\ args \in [EntryIds -> Entries]
    /\ ret = [e \in EntryIds |-> None]

\* The package does not import, so no entry is ever loaded and the host
\* never calls async_unload_entry.
NextEntry == \E e \in EntryIds : AsyncSetupEntry(e)

SpecEntry == InitEntry /\ [][NextEntry]_vars

(* C23: a setup whose first refresh succeeds registers the coordinator     *)
(* under the entry id and forwards the sensor platform, and only such a    *)
(* setup does; an unload removes the coordinator and closes its session    *)
(* exactly when the platform unload succeeded; a registered coordinator    *)
(* never has a closed session.                                             *)
C23_EntryLifecycle ==
    (fn = "async_setup_entry")
    => \A e \in EntryIds :
          /\ (ret[e] # None /\ args[e].has_token
                  /\ args[e].first_refresh = "ok")
                => /\ ret[e] = Some("True")
                   /\ hass_data[e] # None
                   /\ e \in platforms
          /\ (ret[e] # None /\ args[e].first_refresh # "ok")
                => (hass_data[e] = None /\ e \notin platforms)
          /\ e \in platforms => hass_data[e] # None
          /\ hass_data[e] # None => hass_data[e] = Some("open")

====
